---- MODULE Spec2Model ----
(***************************************************************************)
(* Model of src/view/main_view.rs: the background data-flush task          *)
(* (start_data_flush_thread), the three mpsc channels that connect it to   *)
(* MainView, and the per-frame MainView::update / create_bar_chart /       *)
(* on_exit handlers.                                                       *)
(*                                                                         *)
(* The background task and the GUI thread run concurrently, so each        *)
(* handler is cut at its channel operations: every action below is one     *)
(* channel operation (or one atomic flag access) together with the local   *)
(* computation that precedes it.                                           *)
(***************************************************************************)
EXTENDS Integers, Sequences, FiniteSets, TLC

VARIABLES
    pc,                         \* position of the background task
    first_flag,                 \* `first_flag` local of the task
    on_exit,                    \* shared AtomicBool
    update_flag_q,              \* update_flag channel (consumer -> task)
    data_q,                     \* data channel (task -> consumer)
    message_q,                  \* message channel (task -> consumer)
    rxAlive,                    \* MainView (and its receivers) not yet dropped
    cpc,                        \* position of the GUI thread inside update()
    gacha_statistics,           \* MainView.gacha_statistics
    message,                    \* MainView.message
    gacha_statistic_view_vec,   \* MainView.gacha_statistic_view_vec
    clicks,                     \* number of clicks on the update button so far
    inflight,                   \* gacha_statistics() calls started and not returned
    cyc,                        \* history: what the current/last work cycle did
    fetchesStarted,             \* history: gacha_statistics() calls so far
    requestsConsumed,           \* history: update flags received so far
    fr,                         \* history: what the current frame did
    prevQuiet,                  \* history: the previous frame got no snapshot
                                \* and saw no click
    emitted,                    \* history: last value given to data_tx.send and
                                \* last status given to the message sender
    drain                       \* the render loop of update() taken step by step

vars == <<pc, first_flag, on_exit, update_flag_q, data_q, message_q, rxAlive,
          cpc, gacha_statistics, message, gacha_statistic_view_vec, clicks,
          inflight, cyc, fetchesStarted, requestsConsumed,
          fr, prevQuiet, emitted, drain>>

coordVars == <<pc, first_flag, inflight, cyc, fetchesStarted,
               requestsConsumed>>
viewVars  == <<cpc, gacha_statistics, message, gacha_statistic_view_vec,
               clicks, fr, prevQuiet>>

----------------------------------------------------------------------------
(* Bounds *)

MaxClicks   == 2      \* clicks on the update button in one run
MaxUnits    == 7      \* card pools of the statistics given to the render loop

----------------------------------------------------------------------------
(* Data *)

\* GachaStatisticsDataItem / GachaStatisticsData as read by create_bar_chart
Item(n, c) == [name |-> n, count |-> c]

Data(t, p, c3, c4, c5, d) ==
    [total |-> t, pull_count |-> p, three_count |-> c3, four_count |-> c4,
     five_count |-> c5, detail |-> d]

Entry(id, d) == [card_pool_type |-> id, data |-> d]

\* GachaStatistics::new(): no card pool at all
EmptyStatistics == << >>

\* A GachaStatistics value is the sequence of (card_pool_type, data) pairs
\* that gacha_statistic.iter() yields.
StatA == << Entry(2, Data(0, 0, 0, 0, 0, << >>)),
            Entry(1, Data(10, 2, 8, 1, 1, << Item("RareItem", 1) >>)) >>

StatB == << Entry(3, Data(7, 7, 5, 2, 0, << >>)),
            Entry(9, Data(4, 1, 1, 1, 2, << Item("X", 2) >>)),
            Entry(1, Data(3, 0, 2, 0, 1, << Item("Y", 1) >>)),
            Entry(4, Data(0, 0, 0, 0, 0, << >>)) >>

Statistics == {StatA, StatB}

Reasons == {"timeout", "network"}

\* Message { message, success }
Msg(k, r, s) == [kind |-> k, reason |-> r, success |-> s]

DefaultMessage == Msg("", "", FALSE)

\* MessageSender::send / success / failed
MessageSender_send(k)      == Msg(k, "", TRUE)
MessageSender_success(k)   == Msg(k, "", TRUE)
MessageSender_failed(k, r) == Msg(k, r, FALSE)

\* mpsc::channel(): unbounded FIFO; send appends
ChanSendSlot(q, m) == << m >>
ChanSend(q, m) == Append(q, m)

\* Sender::send on a channel whose Receiver may have been dropped
SendTo(q, m) == IF rxAlive THEN ChanSend(q, m) ELSE q

----------------------------------------------------------------------------
(* History of one work cycle *)

NoCycle ==
    [started |-> FALSE, first |-> FALSE, fromReq |-> FALSE,
     statuses |-> << >>, snaps |-> << >>, sendAt |-> 0, send |-> "none",
     cache |-> "none", fetch |-> "none", result |-> EmptyStatistics,
     reason |-> ""]

NewCycle(isFirst, isReq) ==
    [NoCycle EXCEPT !.started = TRUE, !.first = isFirst, !.fromReq = isReq]

CycEmit(c, m) == [c EXCEPT !.statuses = Append(@, m)]

CycSend(c, s) ==
    [c EXCEPT !.snaps = Append(@, s), !.sendAt = Len(c.statuses),
              !.send = IF rxAlive THEN "ok" ELSE "failed"]

\* nothing sent yet: the consumer starts from GachaStatistics::new() and
\* Message::default()
NoEmission == [snap |-> EmptyStatistics, msg |-> DefaultMessage]

NoFrame == [exists |-> FALSE, gotSnap |-> FALSE, clicked |-> FALSE,
            rebuilt |-> FALSE]

----------------------------------------------------------------------------
(* MainView::create_bar_chart and the drain loop of MainView::update *)

Bar(x, y) == [argument |-> x, value |-> y]

BarChart(n, bars) == [name |-> n, bars |-> bars]

\* body of the for loop of create_bar_chart: one GachaStatisticsView
ViewOf(e) ==
    [card_pool_type |-> e.card_pool_type,
     total          |-> e.data.total,
     pull_count     |-> e.data.pull_count,
     bar_chart_vec  |-> << BarChart("3star", << Bar(1, e.data.three_count) >>),
                           BarChart("4star", << Bar(2, e.data.four_count) >>),
                           BarChart("5star", << Bar(3, e.data.five_count) >>) >>,
     detail         |-> e.data.detail]

\* the for loop of create_bar_chart: push one view per entry, in iter() order
RECURSIVE BuildLoop(_, _)
BuildLoop(rest, acc) ==
    IF rest = << >> THEN acc
    ELSE BuildLoop(Tail(rest), Append(acc, ViewOf(Head(rest))))

RECURSIVE BuildLoopSkipEmpty(_, _)
BuildLoopSkipEmpty(rest, acc) ==
    IF rest = << >> THEN acc
    ELSE BuildLoopSkipEmpty(Tail(rest),
             IF Head(rest).data.total = 0 THEN acc
             ELSE Append(acc, ViewOf(Head(rest))))

BuildViewSkipEmpty(stat) == BuildLoopSkipEmpty(stat, << >>)

BuildView(stat) == BuildLoop(stat, << >>)

Min(a, b) == IF a < b THEN a ELSE b

\* (len as f32 / 3.0).ceil() as i32
CeilDiv3(n) == IF n % 3 = 0 THEN n \div 3 ELSE (n \div 3) + 1

\* inner loop: `for _ in 0..min(3, len)` { vec.remove(0) }
RECURSIVE DrainRow(_, _)
DrainRow(v, k) == IF k = 0 THEN v ELSE DrainRow(Tail(v), k - 1)

\* outer loop: `for _ in 0..ceil(len / 3)`, the bound taken before the loop
RECURSIVE DrainRows(_, _)
DrainRows(v, rows) ==
    IF rows = 0 THEN v
    ELSE DrainRows(DrainRow(v, Min(3, Len(v))), rows - 1)

DrainKeeps(v) == v

\* the same loops one step at a time: position, the two loop bounds and
\* counters, and what has been removed so far
NoDrain == [pc |-> "idle", rows |-> 0, row |-> 0, k |-> 0, j |-> 0,
            input |-> << >>, removed |-> << >>, rowLens |-> << >>]

\* `min(3, gacha_statistic_view_vec.len() as i32)`
RowLenFixed(v) == 3

RowLen(v) == Min(3, Len(v))

Drain(v) == DrainRows(v, CeilDiv3(Len(v)))

----------------------------------------------------------------------------
(* Initial state: MainView::new has created the channels and spawned the   *)
(* task; no frame has run yet.                                             *)

Init ==
    /\ pc = "top"
    /\ first_flag = TRUE
    /\ on_exit = FALSE
    /\ update_flag_q = << >>
    /\ data_q = << >>
    /\ message_q = << >>
    /\ rxAlive = TRUE
    /\ cpc = "poll_data"
    /\ gacha_statistics = EmptyStatistics
    /\ message = DefaultMessage
    /\ gacha_statistic_view_vec = << >>
    /\ clicks = 0
    /\ inflight = 0
    /\ cyc = NoCycle
    /\ fetchesStarted = 0
    /\ requestsConsumed = 0
    /\ fr = NoFrame
    /\ prevQuiet = FALSE
    /\ emitted = NoEmission
    /\ drain = NoDrain

----------------------------------------------------------------------------
(* start_data_flush_thread: the background task *)

\* `if on_exit_flag_clone.load(..) { break; }`
CheckExit ==
    /\ pc = "top"
    /\ on_exit
    /\ pc' = "done"
    /\ cyc' = NoCycle
    /\ UNCHANGED <<first_flag, inflight, fetchesStarted,
                   requestsConsumed>>
    /\ UNCHANGED <<on_exit, update_flag_q, data_q, message_q, rxAlive>>
    /\ UNCHANGED viewVars
    /\ UNCHANGED drain
    /\ UNCHANGED emitted

\* flag not set and `first_flag ||` short-circuits: work starts without a wait
StartFirst ==
    /\ pc = "top"
    /\ ~on_exit
    /\ first_flag
    /\ pc' = "loading"
    /\ cyc' = NewCycle(TRUE, FALSE)
    /\ UNCHANGED <<first_flag, inflight, fetchesStarted,
                   requestsConsumed>>
    /\ UNCHANGED <<on_exit, update_flag_q, data_q, message_q, rxAlive>>
    /\ UNCHANGED viewVars
    /\ UNCHANGED drain
    /\ UNCHANGED emitted

\* flag not set, not the first pass: enter recv_timeout(1s)
EnterWait ==
    /\ pc = "top"
    /\ ~on_exit
    /\ ~first_flag
    /\ pc' = "wait"
    /\ cyc' = NoCycle
    /\ UNCHANGED <<first_flag, inflight, fetchesStarted,
                   requestsConsumed>>
    /\ UNCHANGED <<on_exit, update_flag_q, data_q, message_q, rxAlive>>
    /\ UNCHANGED viewVars
    /\ UNCHANGED drain
    /\ UNCHANGED emitted

\* recv_timeout(..).is_ok(): a flag was queued; the body of the `if` runs next
RecvRequestCoalesces ==
    /\ pc = "wait"
    /\ update_flag_q # << >>
    /\ update_flag_q' = << >>
    /\ requestsConsumed' = requestsConsumed + 1
    /\ pc' = "loading"
    /\ cyc' = NewCycle(FALSE, TRUE)
    /\ UNCHANGED <<first_flag, inflight, fetchesStarted>>
    /\ UNCHANGED <<on_exit, data_q, message_q, rxAlive>>
    /\ UNCHANGED viewVars
    /\ UNCHANGED emitted
    /\ UNCHANGED drain
RecvRequest ==

    /\ pc = "wait"
    /\ update_flag_q # << >>
    /\ update_flag_q' = Tail(update_flag_q)
    /\ requestsConsumed' = requestsConsumed + 1
    /\ pc' = "loading"
    /\ cyc' = NewCycle(FALSE, TRUE)
    /\ UNCHANGED <<first_flag, inflight, fetchesStarted>>
    /\ UNCHANGED <<on_exit, data_q, message_q, rxAlive>>
    /\ UNCHANGED viewVars
    /\ UNCHANGED drain
    /\ UNCHANGED emitted

\* recv_timeout(..) is Err (timeout, or disconnected and empty): next iteration
RecvTimeoutWaitsAgain ==
    /\ pc = "wait"
    /\ update_flag_q = << >>
    /\ pc' = "wait"
    /\ UNCHANGED <<first_flag, inflight, cyc, fetchesStarted,
                   requestsConsumed>>
    /\ UNCHANGED <<on_exit, update_flag_q, data_q, message_q, rxAlive>>
    /\ UNCHANGED viewVars
    /\ UNCHANGED emitted
    /\ UNCHANGED drain
RecvTimeout ==

    /\ pc = "wait"
    /\ update_flag_q = << >>
    /\ pc' = "top"
    /\ UNCHANGED <<first_flag, inflight, cyc, fetchesStarted,
                   requestsConsumed>>
    /\ UNCHANGED <<on_exit, update_flag_q, data_q, message_q, rxAlive>>
    /\ UNCHANGED viewVars
    /\ UNCHANGED drain
    /\ UNCHANGED emitted

\* message_sender.send("loading"), then the `if first_flag` test
SendLoadingSkipped ==
    /\ pc = "loading"
    /\ pc' = IF first_flag THEN "cache" ELSE "fetch"
    /\ UNCHANGED <<first_flag, inflight, cyc, fetchesStarted,
                   requestsConsumed>>
    /\ UNCHANGED <<on_exit, update_flag_q, data_q, message_q, rxAlive>>
    /\ UNCHANGED viewVars
    /\ UNCHANGED drain
    /\ UNCHANGED emitted

SendLoading ==
    /\ pc = "loading"
    /\ message_q' = SendTo(message_q, MessageSender_send("loading"))
    /\ emitted' = [emitted EXCEPT !.msg = MessageSender_send("loading")]
    /\ cyc' = CycEmit(cyc, MessageSender_send("loading"))
    /\ pc' = IF first_flag THEN "cache" ELSE "fetch"
    /\ UNCHANGED <<first_flag, inflight, fetchesStarted,
                   requestsConsumed>>
    /\ UNCHANGED <<on_exit, update_flag_q, data_q, rxAlive>>
    /\ UNCHANGED viewVars
    /\ UNCHANGED drain
\* first_flag = false; gacha_statistics_from_cache() is Ok; data_tx.send(..)

CacheHitKeepsFlag ==
    /\ pc = "cache"
    /\ first_flag' = first_flag
    /\ \E s \in Statistics :
         /\ data_q' = SendTo(data_q, s)
         /\ emitted' = [emitted EXCEPT !.snap = s]
         /\ cyc' = [CycSend(cyc, s) EXCEPT !.cache = "hit"]
    /\ pc' = IF rxAlive THEN "cache_sent" ELSE "cache_send_failed"
    /\ UNCHANGED <<inflight, fetchesStarted, requestsConsumed>>
    /\ UNCHANGED <<on_exit, update_flag_q, message_q, rxAlive>>
    /\ UNCHANGED viewVars
    /\ UNCHANGED drain
CacheHit ==

    /\ pc = "cache"
    /\ first_flag' = FALSE
    /\ \E s \in Statistics :
         /\ data_q' = SendTo(data_q, s)
         /\ emitted' = [emitted EXCEPT !.snap = s]
         /\ cyc' = [CycSend(cyc, s) EXCEPT !.cache = "hit"]
    /\ pc' = IF rxAlive THEN "cache_sent" ELSE "cache_send_failed"
    /\ UNCHANGED <<inflight, fetchesStarted, requestsConsumed>>
    /\ UNCHANGED <<on_exit, update_flag_q, message_q, rxAlive>>
    /\ UNCHANGED viewVars
    /\ UNCHANGED drain
\* send was Ok: message_sender.success(..); continue

CacheSentStatusFallThrough ==
    /\ pc = "cache_sent"
    /\ message_q' = SendTo(message_q, MessageSender_success("cached"))
    /\ emitted' = [emitted EXCEPT !.msg = MessageSender_success("cached")]
    /\ cyc' = CycEmit(cyc, MessageSender_success("cached"))
    /\ pc' = "fetch"
    /\ UNCHANGED <<first_flag, inflight, fetchesStarted,
                   requestsConsumed>>
    /\ UNCHANGED <<on_exit, update_flag_q, data_q, rxAlive>>
    /\ UNCHANGED viewVars
    /\ UNCHANGED drain
CacheSentStatus ==

    /\ pc = "cache_sent"
    /\ message_q' = SendTo(message_q, MessageSender_success("cached"))
    /\ emitted' = [emitted EXCEPT !.msg = MessageSender_success("cached")]
    /\ cyc' = CycEmit(cyc, MessageSender_success("cached"))
    /\ pc' = "top"
    /\ UNCHANGED <<first_flag, inflight, fetchesStarted,
                   requestsConsumed>>
    /\ UNCHANGED <<on_exit, update_flag_q, data_q, rxAlive>>
    /\ UNCHANGED viewVars
    /\ UNCHANGED drain
\* send was Err: message_sender.failed("internal error"); continue

CacheSendFailedStatus ==
    /\ pc = "cache_send_failed"
    /\ message_q' = SendTo(message_q, MessageSender_failed("internal_error", ""))
    /\ emitted' = [emitted EXCEPT !.msg = MessageSender_failed("internal_error", "")]
    /\ cyc' = CycEmit(cyc, MessageSender_failed("internal_error", ""))
    /\ pc' = "top"
    /\ UNCHANGED <<first_flag, inflight, fetchesStarted,
                   requestsConsumed>>
    /\ UNCHANGED <<on_exit, update_flag_q, data_q, rxAlive>>
    /\ UNCHANGED viewVars
    /\ UNCHANGED drain
\* first_flag = false; gacha_statistics_from_cache() is Err:

\* message_sender.failed("no cache, fetching"), fall through to the fetch
CacheMissSilent ==
    /\ pc = "cache"
    /\ first_flag' = FALSE
    /\ cyc' = [cyc EXCEPT !.cache = "miss"]
    /\ pc' = "fetch"
    /\ UNCHANGED <<inflight, fetchesStarted, requestsConsumed>>
    /\ UNCHANGED <<on_exit, update_flag_q, data_q, message_q, rxAlive>>
    /\ UNCHANGED viewVars
    /\ UNCHANGED drain
    /\ UNCHANGED emitted

CacheMiss ==
    /\ pc = "cache"
    /\ first_flag' = FALSE
    /\ message_q' = SendTo(message_q, MessageSender_failed("no_cache", ""))
    /\ emitted' = [emitted EXCEPT !.msg = MessageSender_failed("no_cache", "")]
    /\ cyc' = [CycEmit(cyc, MessageSender_failed("no_cache", ""))
                 EXCEPT !.cache = "miss"]
    /\ pc' = "fetch"
    /\ UNCHANGED <<inflight, fetchesStarted, requestsConsumed>>
    /\ UNCHANGED <<on_exit, update_flag_q, data_q, rxAlive>>
    /\ UNCHANGED viewVars
    /\ UNCHANGED drain
\* gacha_statistics(&message_sender) is called; the task awaits it.  The call

\* is opaque here: it returns Ok(statistics) or Err(reason) some time later.
FetchStartDetached ==
    /\ pc = "fetch"
    /\ inflight' = inflight + 1
    /\ fetchesStarted' = fetchesStarted + 1
    /\ cyc' = [cyc EXCEPT !.fetch = "running"]
    /\ pc' = "top"
    /\ UNCHANGED <<first_flag, requestsConsumed>>
    /\ UNCHANGED <<on_exit, update_flag_q, data_q, message_q, rxAlive>>
    /\ UNCHANGED viewVars
    /\ UNCHANGED drain
    /\ UNCHANGED emitted

FetchStart ==
    /\ pc = "fetch"
    /\ inflight' = inflight + 1
    /\ fetchesStarted' = fetchesStarted + 1
    /\ cyc' = [cyc EXCEPT !.fetch = "running"]
    /\ pc' = "fetching"
    /\ UNCHANGED <<first_flag, requestsConsumed>>
    /\ UNCHANGED <<on_exit, update_flag_q, data_q, message_q, rxAlive>>
    /\ UNCHANGED viewVars
    /\ UNCHANGED drain
    /\ UNCHANGED emitted

\* gacha_statistics() returned Ok(data); data_tx.send(data).
\* If the send is Err only error!() is logged and the iteration ends.
FetchOkAlwaysReports ==
    /\ pc = "fetching"
    /\ inflight' = inflight - 1
    /\ \E s \in Statistics :
         /\ data_q' = SendTo(data_q, s)
         /\ emitted' = [emitted EXCEPT !.snap = s]
         /\ cyc' = [CycSend(cyc, s) EXCEPT !.fetch = "ok", !.result = s]
    /\ pc' = "fetch_sent"
    /\ UNCHANGED <<first_flag, fetchesStarted, requestsConsumed>>
    /\ UNCHANGED <<on_exit, update_flag_q, message_q, rxAlive>>
    /\ UNCHANGED viewVars
    /\ UNCHANGED drain
FetchOkForgetsSend ==

    /\ pc = "fetching"
    /\ inflight' = inflight - 1
    /\ \E s \in Statistics :
         /\ emitted' = [emitted EXCEPT !.snap = s]
         /\ cyc' = [CycSend(cyc, s) EXCEPT !.fetch = "ok", !.result = s]
    /\ pc' = IF rxAlive THEN "fetch_sent" ELSE "top"
    /\ UNCHANGED <<first_flag, fetchesStarted, requestsConsumed>>
    /\ UNCHANGED <<on_exit, update_flag_q, data_q, message_q, rxAlive>>
    /\ UNCHANGED viewVars
    /\ UNCHANGED drain
FetchOk ==

    /\ pc = "fetching"
    /\ inflight' = inflight - 1
    /\ \E s \in Statistics :
         /\ data_q' = SendTo(data_q, s)
         /\ emitted' = [emitted EXCEPT !.snap = s]
         /\ cyc' = [CycSend(cyc, s) EXCEPT !.fetch = "ok", !.result = s]
    /\ pc' = IF rxAlive THEN "fetch_sent" ELSE "top"
    /\ UNCHANGED <<first_flag, fetchesStarted, requestsConsumed>>
    /\ UNCHANGED <<on_exit, update_flag_q, message_q, rxAlive>>
    /\ UNCHANGED viewVars
    /\ UNCHANGED drain
\* send was Ok: message_sender.success("fetch complete")

FetchSentStatus ==
    /\ pc = "fetch_sent"
    /\ message_q' = SendTo(message_q, MessageSender_success("complete"))
    /\ emitted' = [emitted EXCEPT !.msg = MessageSender_success("complete")]
    /\ cyc' = CycEmit(cyc, MessageSender_success("complete"))
    /\ pc' = "top"
    /\ UNCHANGED <<first_flag, inflight, fetchesStarted,
                   requestsConsumed>>
    /\ UNCHANGED <<on_exit, update_flag_q, data_q, rxAlive>>
    /\ UNCHANGED viewVars
    /\ UNCHANGED drain
\* gacha_statistics() returned Err(err): message_sender.failed(reason)

FetchErrSendsEmpty ==
    /\ pc = "fetching"
    /\ inflight' = inflight - 1
    /\ \E r \in Reasons :
         /\ message_q' = SendTo(message_q, MessageSender_failed("fetch_failed", r))
         /\ emitted' = [snap |-> EmptyStatistics,
                        msg |-> MessageSender_failed("fetch_failed", r)]
         /\ cyc' = [CycEmit(CycSend(cyc, EmptyStatistics),
                            MessageSender_failed("fetch_failed", r))
                      EXCEPT !.fetch = "failed", !.reason = r]
    /\ data_q' = SendTo(data_q, EmptyStatistics)
    /\ pc' = "top"
    /\ UNCHANGED <<first_flag, fetchesStarted, requestsConsumed>>
    /\ UNCHANGED <<on_exit, update_flag_q, rxAlive>>
    /\ UNCHANGED viewVars
    /\ UNCHANGED drain
FetchErrRetries ==

    /\ pc = "fetching"
    /\ inflight' = inflight - 1
    /\ \E r \in Reasons :
         /\ message_q' = SendTo(message_q, MessageSender_failed("fetch_failed", r))
         /\ emitted' = [emitted EXCEPT !.msg = MessageSender_failed("fetch_failed", r)]
         /\ cyc' = [CycEmit(cyc, MessageSender_failed("fetch_failed", r))
                      EXCEPT !.fetch = "failed", !.reason = r]
    /\ pc' = IF fetchesStarted <= MaxClicks + 1 THEN "fetch" ELSE "top"
    /\ UNCHANGED <<first_flag, fetchesStarted, requestsConsumed>>
    /\ UNCHANGED <<on_exit, update_flag_q, data_q, rxAlive>>
    /\ UNCHANGED viewVars
    /\ UNCHANGED drain
FetchErr ==

    /\ pc = "fetching"
    /\ inflight' = inflight - 1
    /\ \E r \in Reasons :
         /\ message_q' = SendTo(message_q, MessageSender_failed("fetch_failed", r))
         /\ emitted' = [emitted EXCEPT !.msg = MessageSender_failed("fetch_failed", r)]
         /\ cyc' = [CycEmit(cyc, MessageSender_failed("fetch_failed", r))
                      EXCEPT !.fetch = "failed", !.reason = r]
    /\ pc' = "top"
    /\ UNCHANGED <<first_flag, fetchesStarted, requestsConsumed>>
    /\ UNCHANGED <<on_exit, update_flag_q, data_q, rxAlive>>
    /\ UNCHANGED viewVars
    /\ UNCHANGED drain
----------------------------------------------------------------------------

(* MainView: one frame of update(), then on_exit and the drop of the view *)

\* `if let Ok(data) = self.data_rx.try_recv() { self.gacha_statistics = data }`
PollDataTakesNewest ==
    /\ cpc = "poll_data"
    /\ IF data_q # << >>
       THEN /\ gacha_statistics' = data_q[Len(data_q)]
            /\ data_q' = << >>
       ELSE UNCHANGED <<gacha_statistics, data_q>>
    /\ fr' = [exists |-> TRUE, gotSnap |-> data_q # << >>, clicked |-> FALSE,
              rebuilt |-> FALSE]
    /\ cpc' = "click"
    /\ UNCHANGED <<message, gacha_statistic_view_vec, clicks, prevQuiet>>
    /\ UNCHANGED <<on_exit, update_flag_q, message_q, rxAlive>>
    /\ UNCHANGED coordVars
    /\ UNCHANGED emitted
    /\ UNCHANGED drain
PollData ==

    /\ cpc = "poll_data"
    /\ IF data_q # << >>
       THEN /\ gacha_statistics' = Head(data_q)
            /\ data_q' = Tail(data_q)
       ELSE UNCHANGED <<gacha_statistics, data_q>>
    /\ fr' = [exists |-> TRUE, gotSnap |-> data_q # << >>, clicked |-> FALSE,
              rebuilt |-> FALSE]
    /\ cpc' = "click"
    /\ UNCHANGED <<message, gacha_statistic_view_vec, clicks, prevQuiet>>
    /\ UNCHANGED <<on_exit, update_flag_q, message_q, rxAlive>>
    /\ UNCHANGED coordVars
    /\ UNCHANGED drain
    /\ UNCHANGED emitted

\* update_button.clicked(): update_flag_tx.send(true); view_vec.clear()
Click ==
    /\ cpc = "click"
    /\ clicks < MaxClicks
    /\ clicks' = clicks + 1
    /\ update_flag_q' = ChanSend(update_flag_q, TRUE)
    /\ gacha_statistic_view_vec' = << >>
    /\ fr' = [fr EXCEPT !.clicked = TRUE]
    /\ cpc' = "poll_msg"
    /\ UNCHANGED <<gacha_statistics, message, prevQuiet>>
    /\ UNCHANGED <<on_exit, data_q, message_q, rxAlive>>
    /\ UNCHANGED coordVars
    /\ UNCHANGED drain
    /\ UNCHANGED emitted

\* the button was not clicked in this frame
NoClick ==
    /\ cpc = "click"
    /\ cpc' = "poll_msg"
    /\ UNCHANGED <<gacha_statistics, message, gacha_statistic_view_vec, clicks,
                   fr, prevQuiet>>
    /\ UNCHANGED <<on_exit, update_flag_q, data_q, message_q, rxAlive>>
    /\ UNCHANGED coordVars
    /\ UNCHANGED drain
    /\ UNCHANGED emitted

\* `if let Ok(message) = self.message_rx.try_recv() { self.message = message }`
PollMessage ==
    /\ cpc = "poll_msg"
    /\ IF message_q # << >>
       THEN /\ message' = Head(message_q)
            /\ message_q' = Tail(message_q)
       ELSE UNCHANGED <<message, message_q>>
    /\ cpc' = "build"
    /\ UNCHANGED <<gacha_statistics, gacha_statistic_view_vec, clicks, fr, prevQuiet>>
    /\ UNCHANGED <<on_exit, update_flag_q, data_q, rxAlive>>
    /\ UNCHANGED coordVars
    /\ UNCHANGED drain
    /\ UNCHANGED emitted

\* self.create_bar_chart(&self.gacha_statistics.clone())
CreateBarChart ==
    /\ cpc = "build"
    /\ IF gacha_statistic_view_vec = << >>
       THEN /\ gacha_statistic_view_vec' = BuildView(gacha_statistics)
            /\ fr' = [fr EXCEPT !.rebuilt = TRUE]
       ELSE UNCHANGED <<gacha_statistic_view_vec, fr>>
    /\ cpc' = "drain"
    /\ UNCHANGED <<gacha_statistics, message, clicks, prevQuiet>>
    /\ UNCHANGED <<on_exit, update_flag_q, data_q, message_q, rxAlive>>
    /\ UNCHANGED coordVars
    /\ UNCHANGED drain
    /\ UNCHANGED emitted

\* the ScrollArea closure: rows of three, each item taken with remove(0)
Render ==
    /\ cpc = "drain"
    /\ gacha_statistic_view_vec' = Drain(gacha_statistic_view_vec)
    /\ prevQuiet' = (~fr.gotSnap /\ ~fr.clicked)
    /\ fr' = NoFrame
    /\ cpc' = "poll_data"
    /\ UNCHANGED <<gacha_statistics, message, clicks>>
    /\ UNCHANGED <<on_exit, update_flag_q, data_q, message_q, rxAlive>>
    /\ UNCHANGED coordVars
    /\ UNCHANGED drain
    /\ UNCHANGED emitted

\* eframe::App::on_exit: self.on_exit.swap(true, Relaxed)
OnExit ==
    /\ cpc = "poll_data"
    /\ on_exit' = TRUE
    /\ cpc' = "exited"
    /\ UNCHANGED <<gacha_statistics, message, gacha_statistic_view_vec, clicks,
                   fr, prevQuiet>>
    /\ UNCHANGED <<update_flag_q, data_q, message_q, rxAlive>>
    /\ UNCHANGED coordVars
    /\ UNCHANGED drain
    /\ UNCHANGED emitted

\* after on_exit the MainView is dropped: data_rx, message_rx and
\* update_flag_tx go away; flags already queued stay receivable
DropView ==
    /\ cpc = "exited"
    /\ rxAlive' = FALSE
    /\ data_q' = << >>
    /\ message_q' = << >>
    /\ cpc' = "dropped"
    /\ UNCHANGED <<gacha_statistics, message, gacha_statistic_view_vec, clicks,
                   fr, prevQuiet>>
    /\ UNCHANGED <<on_exit, update_flag_q>>
    /\ UNCHANGED coordVars
    /\ UNCHANGED drain
    /\ UNCHANGED emitted

----------------------------------------------------------------------------

Next ==
    \/ CheckExit \/ StartFirst \/ EnterWait \/ RecvRequest \/ RecvTimeout
    \/ SendLoading \/ CacheHit \/ CacheSentStatus \/ CacheSendFailedStatus
    \/ CacheMiss \/ FetchStart \/ FetchOk \/ FetchSentStatus
    \/ FetchErr
    \/ PollData \/ Click \/ NoClick \/ PollMessage \/ CreateBarChart \/ Render
    \/ OnExit \/ DropView

Spec == Init /\ [][Next]_vars

\* the steps of the background task
Task ==
    \/ CheckExit \/ StartFirst \/ EnterWait \/ RecvRequest \/ RecvTimeout
    \/ SendLoading \/ CacheHit \/ CacheSentStatus \/ CacheSendFailedStatus
    \/ CacheMiss \/ FetchStart \/ FetchOk \/ FetchSentStatus
    \/ FetchErr

\* the steps of one frame of MainView::update
Frame ==
    \/ PollData \/ Click \/ NoClick \/ PollMessage \/ CreateBarChart \/ Render

\* The runtime keeps scheduling the spawned task, every timed wait and every
\* gacha_statistics() call returns, and update() asks for a repaint every
\* 100 ms, so frames keep coming until the application exits.
LiveSpec == Init /\ [][Next]_vars /\ WF_vars(Task) /\ WF_vars(Frame)

----------------------------------------------------------------------------
(* The render loop of MainView::update, lines 177-186, on its own: the     *)
(* frame has called create_bar_chart and the view vector holds one view    *)
(* per card pool.                                                          *)

\* statistics with n card pools, n = 0 .. MaxUnits
PoolStat(n, base) ==
    [i \in 1..n |-> Entry(base + i, Data(i, 0, i, 0, 0, << >>))]

DrainInputs == { PoolStat(n, base) : n \in 0..MaxUnits, base \in {0, 10, 20} }

DrainInit ==
    /\ pc = "wait"
    /\ first_flag = FALSE
    /\ on_exit = FALSE
    /\ update_flag_q = << >>
    /\ data_q = << >>
    /\ message_q = << >>
    /\ rxAlive = TRUE
    /\ cpc = "drain"
    /\ \E stat \in DrainInputs :
         /\ gacha_statistics = stat
         /\ gacha_statistic_view_vec = BuildView(stat)
         /\ drain = [NoDrain EXCEPT !.pc = "start", !.input = BuildView(stat)]
         /\ emitted = [snap |-> stat, msg |-> DefaultMessage]
    /\ message = DefaultMessage
    /\ clicks = 0
    /\ inflight = 0
    /\ cyc = NoCycle
    /\ fetchesStarted = 0
    /\ requestsConsumed = 0
    /\ fr = [exists |-> TRUE, gotSnap |-> FALSE, clicked |-> FALSE,
             rebuilt |-> TRUE]
    /\ prevQuiet = FALSE

drainOther == <<pc, first_flag, on_exit, update_flag_q, data_q, message_q,
                rxAlive, cpc, gacha_statistics, message, clicks, inflight, cyc,
                fetchesStarted, requestsConsumed, fr, prevQuiet, emitted>>

\* `0..(len as f32 / 3.0).ceil() as i32`: the outer range, evaluated once
OuterRange ==
    /\ drain.pc = "start"
    /\ drain' = [drain EXCEPT !.pc = "outer",
                              !.rows = CeilDiv3(Len(gacha_statistic_view_vec))]
    /\ UNCHANGED gacha_statistic_view_vec
    /\ UNCHANGED drainOther

\* next row: `0..min(3, len)`, the inner range, evaluated at the row's start
InnerRange ==
    /\ drain.pc = "outer"
    /\ drain.row < drain.rows
    /\ drain' = [drain EXCEPT !.pc = "inner", !.j = 0,
                              !.k = RowLen(gacha_statistic_view_vec)]
    /\ UNCHANGED gacha_statistic_view_vec
    /\ UNCHANGED drainOther

\* `let item = gacha_statistic_view_vec.remove(0)`: panics on an empty Vec
RemoveFirst ==
    /\ drain.pc = "inner"
    /\ drain.j < drain.k
    /\ IF gacha_statistic_view_vec = << >>
       THEN /\ drain' = [drain EXCEPT !.pc = "panic"]
            /\ UNCHANGED gacha_statistic_view_vec
       ELSE /\ gacha_statistic_view_vec' = Tail(gacha_statistic_view_vec)
            /\ drain' = [drain EXCEPT
                           !.j = @ + 1,
                           !.removed = Append(@, Head(gacha_statistic_view_vec))]
    /\ UNCHANGED drainOther

\* the inner range is exhausted: the row is laid out
RowDone ==
    /\ drain.pc = "inner"
    /\ drain.j = drain.k
    /\ drain' = [drain EXCEPT !.pc = "outer", !.row = @ + 1,
                              !.rowLens = Append(@, drain.k)]
    /\ UNCHANGED gacha_statistic_view_vec
    /\ UNCHANGED drainOther

\* the outer range is exhausted: the pass ends
PassDone ==
    /\ drain.pc = "outer"
    /\ drain.row = drain.rows
    /\ drain' = [drain EXCEPT !.pc = "done"]
    /\ UNCHANGED gacha_statistic_view_vec
    /\ UNCHANGED drainOther

DrainNext == OuterRange \/ InnerRange \/ RemoveFirst \/ RowDone \/ PassDone

SpecDrain == DrainInit /\ [][DrainNext]_vars

----------------------------------------------------------------------------
(* Properties *)

Last(q) == q[Len(q)]

\* the iteration that did work has run to the end of the loop body
CycleEnded == pc = "top" /\ cyc.started

Loading      == MessageSender_send("loading")
NoCacheMsg   == MessageSender_failed("no_cache", "")
CachedMsg    == MessageSender_success("cached")
CompleteMsg  == MessageSender_success("complete")

\* C1: at most one gacha_statistics() call is in flight at any time, and
\* while one is in flight the task is suspended on it (it neither waits for
\* nor consumes an update flag, nor emits for another cycle), however many
\* update flags the consumer queues meanwhile.
C1_AtMostOneFetch ==
    /\ inflight <= 1
    /\ inflight = 1 => (pc = "fetching" /\ cyc.fetch = "running")
    /\ pc = "fetching" => inflight = 1

C1_Witness == inflight = 1 /\ Len(update_flag_q) = MaxClicks

\* C2: when the cache load of the first cycle succeeds, that cycle calls no
\* gacha_statistics(), the cached statistics are the only ones it sends
\* (whether or not the send succeeds), and a gacha_statistics() call starts
\* only in a cycle that consumed an update flag (or in a first cycle whose
\* cache load failed).
C2_CacheFirst ==
    /\ [](cyc.cache = "hit" =>
            /\ cyc.first
            /\ cyc.fetch = "none"
            /\ Len(cyc.snaps) = 1
            /\ pc \in {"cache_sent", "cache_send_failed", "top"})
    /\ [][inflight' > inflight => (cyc.fromReq \/ cyc.cache = "miss")]_vars

C2_Witness ==
    /\ CycleEnded /\ cyc.cache = "hit"
    /\ requestsConsumed = 0 /\ fetchesStarted = 0 /\ clicks > 0

\* C3 (as claimed): a failed gacha_statistics() is reported by a status with
\* success = false carrying the reason, the cycle sends no statistics, and
\* after the failure the statistics held by MainView stay what they were.
C3_HeldUnchangedAfterFailure ==
    /\ [](cyc.fetch = "failed" =>
            /\ cyc.snaps = << >>
            /\ Last(cyc.statuses) = MessageSender_failed("fetch_failed", cyc.reason))
    /\ [][(pc = "top" /\ cyc.fetch = "failed")
            => gacha_statistics' = gacha_statistics]_vars

\* C3 (amended): a failed gacha_statistics() is reported by a final status
\* with success = false carrying the reason, the cycle neither sends
\* statistics nor changes the data channel, and the statistics held by
\* MainView change after the failure only by receiving what an earlier cycle
\* had left in the data channel.
C3_FailureSendsNothing ==
    /\ [](cyc.fetch = "failed" =>
            /\ pc = "top"
            /\ cyc.snaps = << >>
            /\ cyc.send = "none"
            /\ cyc.reason \in Reasons
            /\ Last(cyc.statuses) = MessageSender_failed("fetch_failed", cyc.reason)
            /\ ~Last(cyc.statuses).success)
    /\ [][(cyc.fetch = "running" /\ cyc'.fetch = "failed")
            => data_q' = data_q]_vars
    /\ [][(pc = "top" /\ cyc.fetch = "failed"
             /\ gacha_statistics' # gacha_statistics)
            => (data_q # << >> /\ gacha_statistics' = Head(data_q)
                /\ data_q' = Tail(data_q))]_vars

C3_Witness ==
    /\ CycleEnded /\ cyc.fetch = "failed" /\ cyc.fromReq
    /\ gacha_statistics \in Statistics
    /\ data_q = << >> /\ cpc = "click"

\* C4: in a frame that received no statistics and saw no click, following a
\* frame of the same kind, create_bar_chart does not rebuild the view vector
\* of the (non-empty) statistics it holds.
C4_NoRebuildOnQuietFrame ==
    (cpc = "drain" /\ prevQuiet /\ ~fr.gotSnap /\ ~fr.clicked
       /\ gacha_statistics # EmptyStatistics)
        => ~fr.rebuilt

\* C5: once on_exit is set no new work cycle begins: the flag is checked
\* again after the timed wait, also when the wait ended by receiving an
\* update flag.
C5_NoCycleAfterExit ==
    [][(on_exit /\ pc' = "loading") => pc = "loading"]_vars

\* C6 (as claimed): first cycle, cache load fails, fetch succeeds: the first
\* status of the cycle is "no cache" with success = false, the last one is
\* "fetch complete" with success = true, and exactly the fetch result is sent.
C6_FirstStatusNoCache ==
    (CycleEnded /\ cyc.first /\ cyc.cache = "miss" /\ cyc.fetch = "ok"
       /\ cyc.send = "ok")
        => /\ cyc.statuses[1] = NoCacheMsg
           /\ Last(cyc.statuses) = CompleteMsg
           /\ cyc.snaps = << cyc.result >>

\* C6 (amended): first cycle, cache load fails: the first status of the cycle
\* is "loading" and the second is "no cache" with success = false; when the
\* fetch then succeeds exactly one statistics value, the fetch result, is
\* sent, and when that send succeeds the last status of the cycle is
\* "fetch complete" with success = true.
C6_EmptyCacheScenario ==
    /\ (cyc.first /\ cyc.cache = "miss")
         => /\ Len(cyc.statuses) >= 2
            /\ cyc.statuses[1] = Loading
            /\ cyc.statuses[2] = NoCacheMsg
            /\ ~cyc.statuses[2].success
    /\ (cyc.first /\ cyc.cache = "miss" /\ cyc.fetch = "ok")
         => /\ cyc.snaps = << cyc.result >>
            /\ cyc.result \in Statistics
    /\ (CycleEnded /\ cyc.first /\ cyc.cache = "miss" /\ cyc.fetch = "ok"
          /\ cyc.send = "ok")
         => /\ Last(cyc.statuses) = CompleteMsg
            /\ Last(cyc.statuses).success

C6_Witness ==
    /\ CycleEnded /\ cyc.first /\ cyc.cache = "miss" /\ cyc.fetch = "ok"
    /\ cyc.send = "ok"
    /\ gacha_statistics = cyc.result

\* C7: in every cycle whose data_tx.send failed, on the cache path and on the
\* fetch path, a status with success = false is emitted after the failed
\* send and no completion status with success = true is emitted.
C7_DeliveryFailureReported ==
    (CycleEnded /\ cyc.send = "failed")
        => /\ \E i \in (cyc.sendAt + 1)..Len(cyc.statuses) :
                 ~cyc.statuses[i].success
           /\ \A i \in 1..Len(cyc.statuses) :
                 cyc.statuses[i] \notin {CachedMsg, CompleteMsg}

\* C8: a cycle sends statistics at most once, only after a successful cache
\* load or a successful gacha_statistics(), and every cycle that has run to
\* its end has emitted at least one status.
C8_SnapshotGuard ==
    /\ Len(cyc.snaps) <= 1
    /\ cyc.snaps # << >> => (cyc.cache = "hit" \/ cyc.fetch = "ok")
    /\ (cyc.send = "none") <=> (cyc.snaps = << >>)
    /\ CycleEnded => Len(cyc.statuses) >= 1
    /\ ~cyc.started => (cyc.snaps = << >> /\ cyc.statuses = << >>)

C8_Witness ==
    /\ CycleEnded /\ cyc.fromReq /\ cyc.fetch = "ok" /\ cyc.send = "failed"
    /\ Len(cyc.statuses) = 1

\* C9 (as claimed): at most one status is pending in the message channel.
C9_SingleSlot == Len(message_q) <= 1

\* C9 (amended): the message channel is an unbounded first-in-first-out
\* queue: an emitted status is appended behind the pending ones and discards
\* none, a poll that returns a status returns the oldest pending one, which
\* becomes the single displayed status; pending statuses are lost only when
\* the receiver is dropped.
C9_FifoStatus ==
    [][message_q' # message_q =>
         \/ /\ Len(message_q') = Len(message_q) + 1
            /\ SubSeq(message_q', 1, Len(message_q)) = message_q
         \/ /\ message_q # << >>
            /\ message_q' = Tail(message_q)
            /\ message' = Head(message_q)
         \/ /\ rxAlive /\ ~rxAlive'
            /\ message_q' = << >>]_vars

C9_Witness ==
    /\ Len(message_q) >= 2
    /\ message = Loading
    /\ message_q[1] # message_q[2]

\* C10: the view vector create_bar_chart builds has one view per card pool of
\* the statistics, pools without pulls included, in iteration order; each
\* view carries the pool's card_pool_type, total, pull_count and detail
\* unchanged and the three bars (1, three_count), (2, four_count),
\* (3, five_count) in that order.
C10_BuilderResult ==
    (cpc = "drain" /\ fr.rebuilt) =>
        /\ Len(gacha_statistic_view_vec) = Len(gacha_statistics)
        /\ \A i \in 1..Len(gacha_statistics) :
             LET v == gacha_statistic_view_vec[i]
                 e == gacha_statistics[i]
             IN /\ v.card_pool_type = e.card_pool_type
                /\ v.total = e.data.total
                /\ v.pull_count = e.data.pull_count
                /\ v.detail = e.data.detail
                /\ Len(v.bar_chart_vec) = 3
                /\ v.bar_chart_vec[1].bars = << Bar(1, e.data.three_count) >>
                /\ v.bar_chart_vec[2].bars = << Bar(2, e.data.four_count) >>
                /\ v.bar_chart_vec[3].bars = << Bar(3, e.data.five_count) >>

C10_Witness ==
    /\ cpc = "drain" /\ fr.rebuilt
    /\ gacha_statistics = StatB
    /\ Len(gacha_statistic_view_vec) = 4
    /\ gacha_statistic_view_vec[4].total = 0

\* C11: once the exit flag is set the task reaches its terminal state, and
\* from the moment it has seen the flag at the top of the loop it sends no
\* status, sends no statistics and receives no update flag.
C11_CooperativeTermination ==
    /\ on_exit ~> (pc = "done")
    /\ [][pc = "done" =>
            /\ pc' = "done"
            /\ update_flag_q' = update_flag_q
            /\ Len(message_q') <= Len(message_q)
            /\ Len(data_q') <= Len(data_q)
            /\ emitted' = emitted
            /\ requestsConsumed' = requestsConsumed
            /\ fetchesStarted' = fetchesStarted]_vars

C11_Witness ==
    /\ pc = "done"
    /\ update_flag_q # << >>
    /\ cpc = "dropped"

\* C12: a gacha_statistics() call starts only in the first cycle after a
\* failed cache load or in a cycle that has just received an update flag, at
\* most once per cycle; a cycle starts only on the first pass or by receiving
\* an update flag, so calls never outnumber received flags by more than one.
C12_NoAutomaticRetry ==
    /\ [](fetchesStarted <= requestsConsumed + 1)
    /\ [](cyc.started => (cyc.first /\ ~cyc.fromReq) \/ (cyc.fromReq /\ ~cyc.first))
    /\ [][fetchesStarted' # fetchesStarted =>
            /\ fetchesStarted' = fetchesStarted + 1
            /\ cyc.fetch = "none"
            /\ (cyc.first /\ cyc.cache = "miss") \/ cyc.fromReq]_vars
    /\ [][(pc \in {"top", "wait"} /\ pc' \notin {"top", "wait", "done"}) =>
            /\ pc' = "loading"
            /\ \/ (first_flag /\ requestsConsumed' = requestsConsumed)
               \/ (~first_flag /\ requestsConsumed' = requestsConsumed + 1
                   /\ Len(update_flag_q') = Len(update_flag_q) - 1)]_vars

C12_Witness ==
    /\ pc = "wait"
    /\ update_flag_q = << >>
    /\ fetchesStarted = requestsConsumed + 1
    /\ requestsConsumed = MaxClicks
    /\ message.kind = "fetch_failed"

\* C13: the cache is read at most once, in the first cycle, which receives no
\* update flag; first_flag is cleared by that read whether it succeeds or
\* fails and is never set again; every later cycle goes from the loading
\* status straight to gacha_statistics().
C13_CacheOnlyFirstCycle ==
    /\ [](pc = "cache" => (first_flag /\ cyc.first /\ cyc.cache = "none"))
    /\ [](cyc.cache # "none" => (cyc.first /\ ~cyc.fromReq /\ ~first_flag))
    /\ [](cyc.first => requestsConsumed = 0)
    /\ []((cyc.started /\ ~cyc.first) =>
            /\ ~first_flag
            /\ cyc.cache = "none"
            /\ pc \in {"loading", "fetch", "fetching", "fetch_sent", "top"}
            /\ pc \in {"fetching", "fetch_sent", "top"} => cyc.fetch # "none")
    /\ [](CycleEnded => ~first_flag)
    /\ [][~first_flag => ~first_flag']_vars
    /\ [][cyc'.first /\ ~cyc.first => (first_flag /\ fetchesStarted = 0)]_vars

C13_Witness ==
    /\ CycleEnded /\ ~cyc.first /\ cyc.fromReq
    /\ cyc.fetch = "ok" /\ cyc.cache = "none"
    /\ requestsConsumed = MaxClicks

\* C14: in every frame the view vector that the render loop receives is the
\* one create_bar_chart builds from the statistics held after this frame's
\* try_recv, also in a frame that received new statistics without a click
\* having cleared the vector.
C14_FreshView ==
    cpc = "drain" =>
        /\ gacha_statistic_view_vec = BuildView(gacha_statistics)
        /\ Len(gacha_statistic_view_vec) = Len(gacha_statistics)
        /\ \A i \in 1..Len(gacha_statistics) :
             /\ gacha_statistic_view_vec[i].card_pool_type
                  = gacha_statistics[i].card_pool_type
             /\ gacha_statistic_view_vec[i].total = gacha_statistics[i].data.total

C14_Witness ==
    /\ cpc = "drain"
    /\ fr.gotSnap /\ ~fr.clicked /\ prevQuiet
    /\ gacha_statistics = StatB
    /\ requestsConsumed >= 1 /\ fetchesStarted >= 1
    /\ gacha_statistic_view_vec # << >>

\* C15: the first thing a cycle emits is the "loading" status (no statistics
\* before it); the statistics of a successful cache load or fetch are sent
\* before the "cached" / "fetch complete" status, and that status is emitted
\* only when the send succeeded.
C15_EmissionOrder ==
    /\ cyc.statuses # << >> => cyc.statuses[1].kind = "loading"
    /\ cyc.snaps # << >> => cyc.sendAt >= 1
    /\ pc \in {"cache", "fetch", "fetching"} => cyc.statuses # << >>
    /\ \A i \in 1..Len(cyc.statuses) :
         cyc.statuses[i].kind \in {"cached", "complete"} =>
            /\ i = Len(cyc.statuses)
            /\ i = cyc.sendAt + 1
            /\ cyc.snaps # << >>
            /\ cyc.send = "ok"
            /\ cyc.statuses[i].kind = "cached" <=> cyc.cache = "hit"
            /\ cyc.statuses[i].kind = "complete" <=> cyc.fetch = "ok"
    /\ pc = "cache_sent" => (cyc.cache = "hit" /\ cyc.send = "ok")
    /\ pc = "fetch_sent" => (cyc.fetch = "ok" /\ cyc.send = "ok")

C15_Witness ==
    /\ CycleEnded /\ cyc.fetch = "ok" /\ cyc.send = "ok"
    /\ Last(cyc.statuses) = CompleteMsg
    /\ cyc.sendAt = Len(cyc.statuses) - 1
    /\ cyc.first

\* C16: the consumer can display the "fetch complete" status of a cycle
\* while it still holds older statistics: the statistics of that cycle were
\* sent before the status, so as long as the view lives they are either held
\* already or still waiting in the data channel for the next frame.
C16_StatusMayOvertakeData ==
    (rxAlive /\ CycleEnded /\ cyc.fetch = "ok" /\ cyc.send = "ok"
       /\ message_q = << >> /\ message = CompleteMsg)
        => \/ (data_q = << >> /\ gacha_statistics = cyc.result)
           \/ (data_q # << >> /\ Last(data_q) = cyc.result)

C16_Witness ==
    /\ rxAlive /\ CycleEnded /\ cyc.fetch = "ok" /\ cyc.send = "ok"
    /\ cyc.fromReq
    /\ message_q = << >> /\ message = CompleteMsg
    /\ data_q = << cyc.result >>
    /\ gacha_statistics \in Statistics
    /\ gacha_statistics # cyc.result
    /\ cpc \in {"build", "drain"}

\* C17: a click always queues one more update flag; flags are neither lost
\* nor merged (flags received + flags queued = clicks), each received flag
\* starts one cycle that calls gacha_statistics() once, and unless the
\* application exits a non-empty queue always has its oldest flag received
\* (the task comes to the start of a cycle begun by a flag; so every queued
\* flag is received, in order) and each such cycle runs to the end, one cycle
\* after another.
C17_RequestsQueued ==
    /\ [](requestsConsumed + Len(update_flag_q) = clicks)
    /\ [][clicks' # clicks =>
            /\ clicks' = clicks + 1
            /\ update_flag_q' = Append(update_flag_q, TRUE)]_vars
    /\ [][requestsConsumed' # requestsConsumed =>
            /\ requestsConsumed' = requestsConsumed + 1
            /\ update_flag_q' = Tail(update_flag_q)
            /\ inflight = 0 /\ pc = "wait"
            /\ cyc'.fromReq /\ cyc'.fetch = "none"]_vars
    /\ []((CycleEnded /\ cyc.fromReq) => cyc.fetch \in {"ok", "failed"})
    /\ (update_flag_q # << >> /\ pc # "loading")
         ~> (on_exit \/ (pc = "loading" /\ cyc.fromReq))
    /\ (cyc.fromReq /\ pc # "top") ~> CycleEnded

C17_Witness ==
    /\ ~on_exit
    /\ clicks = MaxClicks
    /\ requestsConsumed = MaxClicks
    /\ fetchesStarted = MaxClicks + 1
    /\ CycleEnded /\ cyc.fromReq /\ cyc.fetch = "ok"

\* the task is between cycles (or has ended): it emits nothing
TaskIdle == pc \in {"top", "wait", "done"} /\ ~(pc = "top" /\ first_flag)

\* the consumer has caught up with everything the task emitted
CaughtUp ==
    /\ data_q = << >> /\ gacha_statistics = emitted.snap
    /\ message_q = << >> /\ message = emitted.msg

\* C19: statistics reach the consumer in the order they were sent, one per
\* frame at most, and only values that were sent; while the view lives the
\* newest sent value is the last one queued, or the one held when nothing is
\* queued (the same for statuses); and when the task stops emitting while
\* frames keep running, the consumer ends up holding the last statistics
\* sent and displaying the last status emitted.
C19_EventualDelivery ==
    /\ [][Len(data_q') > Len(data_q) =>
            (rxAlive /\ data_q' = Append(data_q, emitted'.snap))]_vars
    /\ [][Len(data_q') < Len(data_q) =>
            \/ (rxAlive /\ ~rxAlive')
            \/ /\ cpc = "poll_data" /\ cpc' = "click"
               /\ gacha_statistics' = Head(data_q)
               /\ data_q' = Tail(data_q)]_vars
    /\ [][gacha_statistics' # gacha_statistics =>
            (data_q # << >> /\ Len(data_q') = Len(data_q) - 1)]_vars
    /\ [](rxAlive =>
            /\ emitted.snap = IF data_q = << >> THEN gacha_statistics
                              ELSE Last(data_q)
            /\ emitted.msg = IF message_q = << >> THEN message
                             ELSE Last(message_q))
    /\ (<>[]TaskIdle /\ []~on_exit) => <>[]CaughtUp

C19_Witness ==
    /\ ~on_exit /\ pc = "wait"
    /\ CaughtUp
    /\ requestsConsumed = MaxClicks
    /\ gacha_statistics \in Statistics
    /\ message = CompleteMsg
    /\ cpc = "poll_data"

\* C18: one pass of the render loop over a view vector of n views lays out
\* ceil(n/3) rows, row i taking min(3, what is left) views from the front;
\* the views leave in vector order, each once; remove(0) is never called on
\* an empty vector; and the vector is empty when the pass ends.
C18_DrainTotalAndSafe ==
    LET n == Len(drain.input) IN
    /\ drain.pc # "panic"
    /\ (drain.pc = "inner" /\ drain.j < drain.k)
         => gacha_statistic_view_vec # << >>
    /\ drain.removed \o gacha_statistic_view_vec = drain.input
    /\ \A i \in 1..Len(drain.rowLens) :
         /\ drain.rowLens[i] = Min(3, n - 3 * (i - 1))
         /\ drain.rowLens[i] >= 1
    /\ drain.pc = "done" =>
         /\ gacha_statistic_view_vec = << >>
         /\ drain.removed = drain.input
         /\ 3 * Len(drain.rowLens) >= n
         /\ 3 * Len(drain.rowLens) < n + 3
         /\ Drain(drain.input) = gacha_statistic_view_vec

C18_Witness ==
    /\ drain.pc = "done"
    /\ Len(drain.input) = MaxUnits
    /\ Len(drain.rowLens) >= 3
    /\ Last(drain.rowLens) < 3

====
